---- MODULE Spec2Model ----
(***************************************************************************)
(* Model of the task-management views of imhotep_tasks                     *)
(* (backend/imhotep_tasks/tasks/main/task_managment.py).                   *)
(*                                                                         *)
(* The Task Store is the set `tasks` of rows of the Tasks table.  Every    *)
(* view of the module is one action of Spec, which handles one request at  *)
(* a time.  SpecConc adds list requests that are in flight together, with  *)
(* the routine materialization engine run one routine at a time.           *)
(* SpecRoutines adds the editing and deletion of routines, SpecFail an     *)
(* engine whose row creation can raise, and SpecRace splits the views      *)
(* that load a row and save it later into their two database accesses.     *)
(*                                                                         *)
(* apply_routines, _parse_date_input and the Tasks model are imported by   *)
(* the views but are defined elsewhere; they are modelled from the         *)
(* specification and from the way the views use them.                      *)
(***************************************************************************)
EXTENDS Integers, Sequences, FiniteSets, TLC

(* ---------------------------------------------------------------- bounds *)
\* the clock runs over the days 0..MaxDay
MaxDay == 1
\* rows are created while the next row id is at most MaxId
MaxId == 2
\* items per page; Paginator(user_tasks_qs, 20) in the source, scaled down
\* so that views of a few tasks have several pages
PerPage == 1
\* consecutive Materialize calls compared by the idempotence property
MaxCalls == 3
\* list requests that can be in flight together (SpecConc)
NumSlots == 2

(* ----------------------------------------------------- program constants *)
\* week_later = today + timedelta(days=7)
WeekDays == 7
\* HTTP status codes used by the views
HTTP_200_OK == 200
HTTP_201_CREATED == 201
HTTP_400_BAD_REQUEST == 400
HTTP_404_NOT_FOUND == 404
HTTP_500_INTERNAL_SERVER_ERROR == 500

(* ------------------------------------------------------------ data model *)
Users == {"A", "B"}

\* None for a date or a routine reference (SQL NULL)
NULL == -1

\* a key that is missing from request.data / request.GET
Absent == "<absent>"

\* the Routine Definition Store as the users first set it up: each rule is an
\* explicit list of dates
Routines ==
    { [id |-> 1, owner |-> "A", rule |-> {1}, title |-> "r1", details |-> "rd"],
      [id |-> 2, owner |-> "A", rule |-> {1}, title |-> "r2", details |-> "rd"] }

fires_on(rule, d) == d \in rule

VARIABLES
    tasks,            \* the Tasks table: a set of rows
    nextId,           \* the next value of the AutoField primary key
    today,            \* the current date (date.today(), timezone.now().date())
    dueDateNullable,  \* whether the due_date column accepts NULL
    routines,         \* the Routine Definition Store
    resp,             \* the response on its way to the client, if any
    reqs              \* list requests in flight together (SpecConc)

vars == <<tasks, nextId, today, dueDateNullable, routines, resp, reqs>>

storeVars == <<tasks, nextId>>
envVars == <<today, dueDateNullable, routines>>

(* ------------------------------------------------------ request payloads *)
\* due_date strings a client sends; "abc" and "" do not parse
RawDues == {Absent, "d0", "abc"}

\* tasks_managements_utils._parse_date_input: a calendar date, or None on a
\* parse failure (add_task relies on the None: `... or today`)
ParseDateInput(raw) ==
    CASE raw = "d0" -> 0
      [] OTHER -> NULL

\* ?page= strings; Absent is the default 1 of request.GET.get('page', 1)
RawPages == {Absent, "2", "abc"}

IsIntPage(raw) == raw \in {Absent, "2"}

IntOfPage(raw) ==
    CASE raw = Absent -> 1
      [] raw = "2" -> 2
      [] OTHER -> 0

\* the ids a request can name: the rows that exist, and 0, which never does
IdPool(T) == {t.id : t \in T} \cup {0}

\* the task_ids lists a bulk request can carry, as the sets of their members:
\* the empty list, one id of a row, or the ids of all rows, of any owner
IdLists(T) == {{}} \cup {{t.id} : t \in T} \cup {{t.id : t \in T}}

(* ------------------------------------------------------------ Task Store *)
\* Tasks.objects.create(...): status and done_date take the model defaults
NewTask(id, u, title, details, due) ==
    [id |-> id, created_by |-> u, task_title |-> title, task_details |-> details,
     due_date |-> due, status |-> FALSE, done_date |-> NULL,
     routine |-> NULL, mat_for |-> NULL]

\* Tasks.objects.filter(created_by=request.user)
OwnedBy(T, u) == {t \in T : t.created_by = u}

\* the bulk filter without created_by=request.user
FilterIdsAnyOwner(T, ids, u) == {t \in T : t.id \in ids}

\* Tasks.objects.filter(id__in=task_ids, created_by=request.user)
FilterIdsOwner(T, ids, u) == {t \in T : t.id \in ids /\ t.created_by = u}

\* get_object_or_404(Tasks, id=task_id, created_by=request.user) finds a row
Found(T, id, u) == \E t \in T : t.id = id /\ t.created_by = u

\* the row it returns
GetObject(T, id, u) == CHOOSE t \in T : t.id = id /\ t.created_by = u

\* the write of a row whose due_date is `due` is accepted by the table
StoreAccepts(nullable, due) == nullable \/ due # NULL

(* ------------------------------------------------ materialization engine *)
\* the task of routine r materialized for date d
RoutineTask(id, r, u, d) ==
    [id |-> id, created_by |-> u, task_title |-> r.title, task_details |-> r.details,
     due_date |-> d, status |-> FALSE, done_date |-> NULL,
     routine |-> r.id, mat_for |-> d]

\* step 3 of the engine: the existence check for (owner, routine, date)
Materialized(T, r, u, d) ==
    \E t \in T : t.created_by = u /\ t.routine = r.id /\ t.mat_for = d

\* the engine with its existence check left out
MaterializeOneUnchecked(st, r, u, d) ==
    IF r.owner = u /\ fires_on(r.rule, d)
    THEN [tasks |-> st.tasks \cup {RoutineTask(st.nextId, r, u, d)},
          nextId |-> st.nextId + 1]
    ELSE st

\* an engine that does not evaluate the recurrence rule
MaterializeOneAnyDate(st, r, u, d) ==
    IF r.owner = u /\ ~Materialized(st.tasks, r, u, d)
    THEN [tasks |-> st.tasks \cup {RoutineTask(st.nextId, r, u, d)},
          nextId |-> st.nextId + 1]
    ELSE st

\* an engine that reads the template live: it rewrites the title and details
\* of a task that is already materialized
MaterializeOneLive(st, r, u, d) ==
    IF r.owner = u /\ fires_on(r.rule, d)
    THEN IF Materialized(st.tasks, r, u, d)
         THEN [tasks |-> {IF t.created_by = u /\ t.routine = r.id /\ t.mat_for = d
                          THEN [t EXCEPT !.task_title = r.title,
                                         !.task_details = r.details]
                          ELSE t : t \in st.tasks},
               nextId |-> st.nextId]
         ELSE [tasks |-> st.tasks \cup {RoutineTask(st.nextId, r, u, d)},
               nextId |-> st.nextId + 1]
    ELSE st

\* one atomic check-or-create; st is [tasks, nextId]
MaterializeOne(st, r, u, d) ==
    IF r.owner = u /\ fires_on(r.rule, d) /\ ~Materialized(st.tasks, r, u, d)
    THEN [tasks |-> st.tasks \cup {RoutineTask(st.nextId, r, u, d)},
          nextId |-> st.nextId + 1]
    ELSE st

\* the routines are visited in id order
FirstRoutine(todo) == CHOOSE r \in todo : \A q \in todo : r.id <= q.id

RECURSIVE MaterializeFrom(_, _, _, _)
MaterializeFrom(st, todo, u, d) ==
    IF todo = {} THEN st
    ELSE LET r == FirstRoutine(todo)
         IN MaterializeFrom(MaterializeOne(st, r, u, d), todo \ {r}, u, d)

\* apply_routines(request, today)
apply_routines(st, u, d) ==
    MaterializeFrom(st, {r \in routines : r.owner = u}, u, d)

(* ------------------------------------------------ query/aggregation layer *)
\* a today filter without the overdue rows
TodayQSDueToday(T, u, d) ==
    {t \in OwnedBy(T, u) : t.due_date # NULL /\ t.due_date = d}

\* .filter(Q(due_date__date=today) | Q(due_date__date__lt=today, status=False));
\* a NULL due_date matches neither comparison
TodayQS(T, u, d) ==
    {t \in OwnedBy(T, u) :
        t.due_date # NULL /\
        (t.due_date = d \/ (t.due_date < d /\ t.status = FALSE))}

AllQS(T, u) == OwnedBy(T, u)

\* .filter(created_by=..., due_date__date__gte=today, due_date__date__lte=week_later)
NextWeekQS(T, u, d) ==
    {t \in OwnedBy(T, u) :
        t.due_date # NULL /\ t.due_date >= d /\ t.due_date <= d + WeekDays}

\* order_by('status', 'due_date'): False before True, then due_date ascending
\* (NULL first); rows with equal keys come in any order
KeyLess(a, b) ==
    \/ (~a.status /\ b.status)
    \/ (a.status = b.status /\ a.due_date < b.due_date)

Minimal(S) == {t \in S : \A q \in S : ~KeyLess(q, t)}

RECURSIVE OrderBy(_)
OrderBy(S) ==
    IF S = {} THEN {<<>>}
    ELSE UNION {{<<t.id>> \o s : s \in OrderBy(S \ {t})} : t \in Minimal(S)}

\* Paginator.num_pages with allow_empty_first_page and no orphans
NumPages(count) ==
    IF count = 0 THEN 1 ELSE (count + PerPage - 1) \div PerPage

\* Paginator.validate_number: PageNotAnInteger or EmptyPage is raised
PageRaises(raw, count) ==
    \/ ~IsIntPage(raw)
    \/ IntOfPage(raw) < 1
    \/ IntOfPage(raw) > NumPages(count)

\* a fallback to the last page instead of page 1
PageNumberLast(raw, count) ==
    IF PageRaises(raw, count) THEN NumPages(count) ELSE IntOfPage(raw)

\* try: paginator.page(page_num) except (PageNotAnInteger, EmptyPage): paginator.page(1)
PageNumber(raw, count) == IF PageRaises(raw, count) THEN 1 ELSE IntOfPage(raw)

Min(a, b) == IF a < b THEN a ELSE b

\* Page.object_list: the slice [bottom:top] of the ordered queryset
PageSlice(ordered, number) ==
    LET bottom == (number - 1) * PerPage
        top == Min(bottom + PerPage, Len(ordered))
    IN SubSeq(ordered, bottom + 1, top)

\* user_tasks_qs.filter(status=True).count()
CompletedCount(qs) == Cardinality({t \in qs : t.status})

\* a total taken from the returned page instead of the queryset
TotalCountOfPage(qs) ==
    IF Cardinality(qs) < PerPage THEN Cardinality(qs) ELSE PerPage

\* user_tasks_qs.count()
TotalCount(qs) == Cardinality(qs)

\* total_number_tasks - completed_tasks_count
PendingCount(qs) == TotalCount(qs) - CompletedCount(qs)

\* the responses a list view can give for the queryset qs
ListResponses(u, raw, qs) ==
    { [kind |-> "list", code |-> HTTP_200_OK, success |-> TRUE, username |-> u,
       user_tasks |-> PageSlice(ordered, PageNumber(raw, TotalCount(qs))),
       page |-> PageNumber(raw, TotalCount(qs)),
       num_pages |-> NumPages(TotalCount(qs)),
       total_number_tasks |-> TotalCount(qs),
       completed_tasks_count |-> CompletedCount(qs),
       pending_tasks |-> PendingCount(qs)] : ordered \in OrderBy(qs) }

\* the response of a mutation view: its status code and 'success'
MutResponse(code) ==
    [kind |-> "mut", code |-> code,
     success |-> (code \in {HTTP_200_OK, HTTP_201_CREATED})]

(* -------------------------------------------------------------- responses *)
NoResp == [kind |-> "none"]

\* a slot with no request in flight
NoReq == [pc |-> "idle"]

\* the table and its primary-key counter, as the engine takes them
Store == [tasks |-> tasks, nextId |-> nextId]

(* ------------------------------------------------------------------ Init *)
Init ==
    /\ tasks = {}
    /\ nextId = 1
    /\ today = 0
    /\ dueDateNullable \in BOOLEAN
    /\ routines = Routines
    /\ resp = NoResp
    /\ reqs = [s \in 1 .. NumSlots |-> NoReq]

(* ------------------------------------------------------------ list views *)
\* the queryset of a list view
ViewQS(view, T, u, d) ==
    CASE view = "today_tasks" -> TodayQS(T, u, d)
      [] view = "next_week_tasks" -> NextWeekQS(T, u, d)
      [] OTHER -> AllQS(T, u)

\* a next_week_tasks that materializes for the day after today
ListViewStoreTomorrow(view, st, u, d) ==
    IF view = "all_tasks" THEN st
    ELSE apply_routines(st, u, IF view = "next_week_tasks" THEN d + 1 ELSE d)

\* the table a list view queries: today_tasks and next_week_tasks call
\* apply_routines(request, today) first, all_tasks does not
ListViewStore(view, st, u, d) ==
    IF view = "all_tasks" THEN st ELSE apply_routines(st, u, d)

\* the responses of a list view
ListViewResponses(view, st, u, raw, d) ==
    ListResponses(u, raw, ViewQS(view, ListViewStore(view, st, u, d).tasks, u, d))

\* GET today_tasks
today_tasks(u, raw) ==
    /\ resp = NoResp
    /\ \E st \in {ListViewStore("today_tasks", Store, u, today)} :
          /\ st.nextId <= MaxId + 1
          /\ tasks' = st.tasks
          /\ nextId' = st.nextId
          /\ resp' \in ListResponses(u, raw, ViewQS("today_tasks", st.tasks, u, today))
    /\ UNCHANGED <<envVars, reqs>>

\* GET all_tasks
all_tasks(u, raw) ==
    /\ resp = NoResp
    /\ resp' \in ListViewResponses("all_tasks", Store, u, raw, today)
    /\ UNCHANGED <<storeVars, envVars, reqs>>

\* GET next_week_tasks
next_week_tasks(u, raw) ==
    /\ resp = NoResp
    /\ \E st \in {ListViewStore("next_week_tasks", Store, u, today)} :
          /\ st.nextId <= MaxId + 1
          /\ tasks' = st.tasks
          /\ nextId' = st.nextId
          /\ resp' \in ListResponses(u, raw, ViewQS("next_week_tasks", st.tasks, u, today))
    /\ UNCHANGED <<envVars, reqs>>

(* -------------------------------------------------------- mutation views *)
\* a create that stores the parse failure instead of today
DueOrNull(raw, d) == ParseDateInput(raw)

\* _parse_date_input(due_date_raw) or today
DueOrToday(raw, d) ==
    IF ParseDateInput(raw) = NULL THEN d ELSE ParseDateInput(raw)

\* the table after add_task
AddTaskStore(T, id, u, title, details, raw, d) ==
    T \cup {NewTask(id, u, title, details, DueOrToday(raw, d))}

\* POST add_task
add_task(u, title, details, raw) ==
    /\ resp = NoResp
    /\ nextId <= MaxId
    /\ tasks' = AddTaskStore(tasks, nextId, u, title, details, raw, today)
    /\ nextId' = nextId + 1
    /\ resp' = MutResponse(HTTP_201_CREATED)
    /\ UNCHANGED <<envVars, reqs>>

\* request.data.get(key, task.<field>)
GetOr(value, default) == IF value = Absent THEN default ELSE value

\* the row update_task saves
UpdatedTask(t, title, details, raw) ==
    [t EXCEPT !.task_title = GetOr(title, t.task_title),
              !.task_details = GetOr(details, t.task_details),
              !.due_date = IF raw # Absent THEN ParseDateInput(raw) ELSE t.due_date]

\* update_task reaches its success response: the row is found and saved
UpdateTaskOk(T, nullable, u, id, title, details, raw) ==
    /\ Found(T, id, u)
    /\ StoreAccepts(nullable, UpdatedTask(GetObject(T, id, u), title, details, raw).due_date)

\* the status code of a view on one task id: Http404 and a failed save are
\* both caught by `except Exception`
RowCode(ok) == IF ok THEN HTTP_200_OK ELSE HTTP_500_INTERNAL_SERVER_ERROR

\* the table after update_task
UpdateTaskStore(T, nullable, u, id, title, details, raw) ==
    IF UpdateTaskOk(T, nullable, u, id, title, details, raw)
    THEN (T \ {GetObject(T, id, u)})
            \cup {UpdatedTask(GetObject(T, id, u), title, details, raw)}
    ELSE T

\* PUT/PATCH update_task
update_task(u, id, title, details, raw) ==
    /\ resp = NoResp
    /\ tasks' = UpdateTaskStore(tasks, dueDateNullable, u, id, title, details, raw)
    /\ resp' = MutResponse(RowCode(
                  UpdateTaskOk(tasks, dueDateNullable, u, id, title, details, raw)))
    /\ UNCHANGED <<nextId, envVars, reqs>>

\* for t in tasks_qs: t.due_date = parsed
WithDueDate(qs, due) == {[t EXCEPT !.due_date = due] : t \in qs}

\* the status code of multiple_update_task_dates
UpdateDatesCode(T, nullable, u, isList, ids, raw) ==
    IF ~isList THEN HTTP_400_BAD_REQUEST
    ELSE IF ids = {} THEN HTTP_400_BAD_REQUEST
    ELSE IF FilterIdsOwner(T, ids, u) = {} THEN HTTP_404_NOT_FOUND
    ELSE IF raw # Absent /\ ~StoreAccepts(nullable, ParseDateInput(raw))
         THEN HTTP_500_INTERNAL_SERVER_ERROR
    ELSE HTTP_200_OK

\* the table after multiple_update_task_dates
UpdateDatesStore(T, nullable, u, isList, ids, raw) ==
    IF UpdateDatesCode(T, nullable, u, isList, ids, raw) = HTTP_200_OK /\ raw # Absent
    THEN (T \ FilterIdsOwner(T, ids, u))
            \cup WithDueDate(FilterIdsOwner(T, ids, u), ParseDateInput(raw))
    ELSE T

\* PUT/PATCH multiple_update_task_dates
multiple_update_task_dates(u, isList, ids, raw) ==
    /\ resp = NoResp
    /\ tasks' = UpdateDatesStore(tasks, dueDateNullable, u, isList, ids, raw)
    /\ resp' = MutResponse(UpdateDatesCode(tasks, dueDateNullable, u, isList, ids, raw))
    /\ UNCHANGED <<nextId, envVars, reqs>>

\* the table after delete_task
DeleteTaskStore(T, u, id) ==
    IF Found(T, id, u) THEN T \ {GetObject(T, id, u)} ELSE T

\* DELETE delete_task
delete_task(u, id) ==
    /\ resp = NoResp
    /\ tasks' = DeleteTaskStore(tasks, u, id)
    /\ resp' = MutResponse(RowCode(Found(tasks, id, u)))
    /\ UNCHANGED <<nextId, envVars, reqs>>

\* a bulk delete that answers success whatever task_ids is
BulkDeleteCodeLenient(isList, ids) == HTTP_200_OK

\* the status code of multiple_delete_task
BulkDeleteCode(isList, ids) ==
    IF isList /\ ids # {} THEN HTTP_200_OK ELSE HTTP_400_BAD_REQUEST

\* the table after multiple_delete_task
BulkDeleteStore(T, u, isList, ids) ==
    IF BulkDeleteCode(isList, ids) = HTTP_200_OK
    THEN T \ FilterIdsOwner(T, ids, u)
    ELSE T

\* DELETE multiple_delete_task
multiple_delete_task(u, isList, ids) ==
    /\ resp = NoResp
    /\ tasks' = BulkDeleteStore(tasks, u, isList, ids)
    /\ resp' = MutResponse(BulkDeleteCode(isList, ids))
    /\ UNCHANGED <<nextId, envVars, reqs>>

\* a toggle that always completes the task
ToggledAlwaysDone(t, d) == [t EXCEPT !.status = TRUE, !.done_date = d]

\* task.status = not task.status
\* task.done_date = timezone.now().date() if task.status else None
Toggled(t, d) ==
    [t EXCEPT !.status = ~t.status,
              !.done_date = IF ~t.status THEN d ELSE NULL]

\* the table after task_complete
ToggleStore(T, u, id, d) ==
    IF Found(T, id, u)
    THEN (T \ {GetObject(T, id, u)}) \cup {Toggled(GetObject(T, id, u), d)}
    ELSE T

\* POST task_complete
task_complete(u, id) ==
    /\ resp = NoResp
    /\ tasks' = ToggleStore(tasks, u, id, today)
    /\ resp' = MutResponse(RowCode(Found(tasks, id, u)))
    /\ UNCHANGED <<nextId, envVars, reqs>>

\* a bulk "set all to complete"
BulkToggledAllDone(qs, d) ==
    {[t EXCEPT !.status = TRUE, !.done_date = d] : t \in qs}

\* a bulk toggle that leaves done_date set when a task is reopened
BulkToggledKeepDate(qs, d) ==
    {[t EXCEPT !.status = ~t.status,
               !.done_date = IF ~t.status THEN d ELSE t.done_date] : t \in qs}

\* for t in tasks_qs: t.status = not t.status; t.done_date = ... if t.status else None
BulkToggled(qs, d) ==
    {[t EXCEPT !.status = ~t.status,
               !.done_date = IF ~t.status THEN d ELSE NULL] : t \in qs}

\* the status code of multiple_task_complete
BulkToggleCode(isList) == IF isList THEN HTTP_200_OK ELSE HTTP_400_BAD_REQUEST

\* the table after multiple_task_complete
BulkToggleStore(T, u, isList, ids, d) ==
    IF isList
    THEN (T \ FilterIdsOwner(T, ids, u)) \cup BulkToggled(FilterIdsOwner(T, ids, u), d)
    ELSE T

\* POST multiple_task_complete
multiple_task_complete(u, isList, ids) ==
    /\ resp = NoResp
    /\ tasks' = BulkToggleStore(tasks, u, isList, ids, today)
    /\ resp' = MutResponse(BulkToggleCode(isList))
    /\ UNCHANGED <<nextId, envVars, reqs>>

(* ------------------------------------------------------------ environment *)
\* the client receives the response
Deliver ==
    /\ resp # NoResp
    /\ resp' = NoResp
    /\ UNCHANGED <<storeVars, envVars, reqs>>

\* the date changes
Tick ==
    /\ resp = NoResp
    /\ today < MaxDay
    /\ today' = today + 1
    /\ UNCHANGED <<storeVars, dueDateNullable, routines, resp, reqs>>

(* --------------------------------------------------------- request inputs *)
Titles == {"a"}
Details == {"x"}

\* the task_title and task_details of an update of row id: the title is sent
\* as the edit form shows it and the details are omitted; for an id with no
\* row both are omitted
Edits(T, id) ==
    IF \E t \in T : t.id = id
    THEN {<<t.task_title, Absent>> : t \in {r \in T : r.id = id}}
    ELSE {<<Absent, Absent>>}

\* the task_ids payloads, <<is a list, its members>>: a list of ids (modelled
\* as the set of its members), or something that is not a list
IdPayloads(T) == {<<TRUE, S>> : S \in IdLists(T)} \cup {<<FALSE, {}>>}

Next ==
    \/ \E u \in Users, raw \in RawPages : today_tasks(u, raw)
    \/ \E u \in Users, raw \in RawPages : all_tasks(u, raw)
    \/ \E u \in Users, raw \in RawPages : next_week_tasks(u, raw)
    \/ \E u \in Users, title \in Titles, details \in Details, raw \in RawDues :
          add_task(u, title, details, raw)
    \/ \E u \in Users, id \in IdPool(tasks), raw \in RawDues :
          \E e \in Edits(tasks, id) : update_task(u, id, e[1], e[2], raw)
    \/ \E u \in Users, p \in IdPayloads(tasks), raw \in RawDues :
          multiple_update_task_dates(u, p[1], p[2], raw)
    \/ \E u \in Users, id \in IdPool(tasks) : delete_task(u, id)
    \/ \E u \in Users, p \in IdPayloads(tasks) : multiple_delete_task(u, p[1], p[2])
    \/ \E u \in Users, id \in IdPool(tasks) : task_complete(u, id)
    \/ \E u \in Users, p \in IdPayloads(tasks) : multiple_task_complete(u, p[1], p[2])
    \/ Deliver
    \/ Tick

Spec == Init /\ [][Next]_vars

(* ------------------------------------------ list requests in flight together *)
Slots == 1 .. NumSlots

\* a today_tasks or next_week_tasks request starts: today = date.today(), and
\* the engine loads the routines of the owner
BeginList(s, u) ==
    /\ reqs[s] = NoReq
    /\ reqs' = [reqs EXCEPT ![s] =
                  [pc |-> "materialize", user |-> u, date |-> today,
                   todo |-> {r \in routines : r.owner = u}]]
    /\ UNCHANGED <<storeVars, envVars, resp>>

\* the engine handles its next routine: one atomic check-or-create
MaterializeStep(s) ==
    /\ reqs[s].pc = "materialize"
    /\ reqs[s].todo # {}
    /\ LET r == FirstRoutine(reqs[s].todo)
           st == MaterializeOne(Store, r, reqs[s].user, reqs[s].date)
       IN /\ st.nextId <= MaxId + 1
          /\ tasks' = st.tasks
          /\ nextId' = st.nextId
          /\ reqs' = [reqs EXCEPT ![s].todo = reqs[s].todo \ {r}]
    /\ UNCHANGED <<envVars, resp>>

\* the engine is through; the view runs its query and responds
FinishList(s, view, raw) ==
    /\ reqs[s].pc = "materialize"
    /\ reqs[s].todo = {}
    /\ resp = NoResp
    /\ resp' \in ListResponses(reqs[s].user, raw,
                               ViewQS(view, tasks, reqs[s].user, reqs[s].date))
    /\ reqs' = [reqs EXCEPT ![s] = NoReq]
    /\ UNCHANGED <<storeVars, envVars>>

\* list requests of the same or of different users interleave, with deletes
\* and the change of date between their steps
NextConc ==
    \/ \E s \in Slots, u \in Users : BeginList(s, u)
    \/ \E s \in Slots : MaterializeStep(s)
    \/ \E s \in Slots, view \in {"today_tasks", "next_week_tasks"}, raw \in RawPages :
          FinishList(s, view, raw)
    \/ \E u \in Users, id \in IdPool(tasks) : delete_task(u, id)
    \/ Deliver
    \/ Tick

SpecConc == Init /\ [][NextConc]_vars

(* ------------------------------------------- routines edited and deleted *)
\* the template a user gives a routine when editing it
NewTemplates == {<<"e", "ed">>}

\* the user edits the title and details template of routine rid
EditRoutine(rid, tpl) ==
    /\ resp = NoResp
    /\ \E r \in routines :
          /\ r.id = rid
          /\ <<r.title, r.details>> # tpl
          /\ routines' = (routines \ {r})
                             \cup {[r EXCEPT !.title = tpl[1], !.details = tpl[2]]}
    /\ UNCHANGED <<storeVars, today, dueDateNullable, resp, reqs>>

\* the user deletes routine rid
DeleteRoutine(rid) ==
    /\ resp = NoResp
    /\ \E r \in routines : r.id = rid /\ routines' = routines \ {r}
    /\ UNCHANGED <<storeVars, today, dueDateNullable, resp, reqs>>

\* the views that materialize and the mutations of one task, with routines
\* edited and deleted between the requests
NextRoutines ==
    \/ \E rid \in {r.id : r \in Routines}, tpl \in NewTemplates : EditRoutine(rid, tpl)
    \/ \E rid \in {r.id : r \in Routines} : DeleteRoutine(rid)
    \/ \E u \in Users, raw \in RawPages : today_tasks(u, raw)
    \/ \E u \in Users, raw \in RawPages : next_week_tasks(u, raw)
    \/ \E u \in Users, id \in IdPool(tasks) : task_complete(u, id)
    \/ \E u \in Users, id \in IdPool(tasks) : delete_task(u, id)
    \/ Deliver
    \/ Tick

SpecRoutines == Init /\ [][NextRoutines]_vars

(* ------------------------------------------- task creation that can fail *)
\* the outcome of an engine call: the table, and whether the call raised
Outcome(st, raised) == [tasks |-> st.tasks, nextId |-> st.nextId, raised |-> raised]

\* the engine creates the task of routine r in this call
Creates(T, r, u, d) ==
    r.owner = u /\ fires_on(r.rule, d) /\ ~Materialized(T, r, u, d)

RECURSIVE MaterializeFromAbort(_, _, _, _, _)
\* an engine that stops at the first creation that fails and raises
MaterializeFromAbort(out, todo, u, d, F) ==
    IF todo = {} THEN out
    ELSE LET r == FirstRoutine(todo)
         IN IF r.id \in F /\ Creates(out.tasks, r, u, d)
            THEN Outcome(out, TRUE)
            ELSE MaterializeFromAbort(
                    Outcome(MaterializeOne(out, r, u, d), out.raised), todo \ {r}, u, d, F)

RECURSIVE MaterializeFromFailing(_, _, _, _, _)
\* the engine when the creation of the tasks of the routines with ids in F
\* fails: it skips such a routine and goes on with the next one
MaterializeFromFailing(out, todo, u, d, F) ==
    IF todo = {} THEN out
    ELSE LET r == FirstRoutine(todo)
         IN IF r.id \in F /\ Creates(out.tasks, r, u, d)
            THEN MaterializeFromFailing(out, todo \ {r}, u, d, F)
            ELSE MaterializeFromFailing(
                    Outcome(MaterializeOne(out, r, u, d), out.raised), todo \ {r}, u, d, F)

\* apply_routines(request, today) with failing creations
apply_routines_failing(st, u, d, F) ==
    MaterializeFromFailing(Outcome(st, FALSE), {r \in routines : r.owner = u}, u, d, F)

\* the sets of routines whose task creation fails in a call
FailureSets == SUBSET {r.id : r \in Routines}

\* GET today_tasks / next_week_tasks while creations fail: the views call
\* apply_routines outside any try, so an exception of the engine would be
\* answered with a server error
ListViewWithFailures(view, u, raw, F) ==
    /\ resp = NoResp
    /\ \E out \in {apply_routines_failing(Store, u, today, F)} :
          /\ out.nextId <= MaxId + 1
          /\ tasks' = out.tasks
          /\ nextId' = out.nextId
          /\ IF out.raised
             THEN resp' = MutResponse(HTTP_500_INTERNAL_SERVER_ERROR)
             ELSE resp' \in ListResponses(u, raw, ViewQS(view, out.tasks, u, today))
    /\ UNCHANGED <<envVars, reqs>>

NextFail ==
    \/ \E view \in {"today_tasks", "next_week_tasks"}, u \in Users, raw \in RawPages :
          \E F \in FailureSets : ListViewWithFailures(view, u, raw, F)
    \/ \E u \in Users, id \in IdPool(tasks) : task_complete(u, id)
    \/ \E u \in Users, id \in IdPool(tasks) : delete_task(u, id)
    \/ Deliver
    \/ Tick

SpecFail == Init /\ [][NextFail]_vars

(* --------------------------------------- mutations in flight together *)
\* The views open no transaction and lock no row (no transaction.atomic, no
\* select_for_update): between the query that loads a row and the statement
\* that writes it, other requests run.

\* task.save() of a loaded row: UPDATE ... WHERE id = pk, and an INSERT of
\* the row with its id when the UPDATE matches no row
Save(T, row) == {t \in T : t.id # row.id} \cup {row}

\* Tasks.objects.bulk_update(rows, ['status', 'done_date']): one UPDATE of
\* the two columns of the rows that are still in the table
BulkUpdateStatus(T, rows) ==
    {IF \E r \in rows : r.id = t.id
     THEN LET r == CHOOSE q \in rows : q.id = t.id
          IN [t EXCEPT !.status = r.status, !.done_date = r.done_date]
     ELSE t : t \in T}

\* a request that has loaded its rows
Loaded(op, u, rows, raw) ==
    [pc |-> "loaded", op |-> op, user |-> u, rows |-> rows, raw |-> raw]

\* task_complete: task = get_object_or_404(...)
LoadToggle(s, u, id) ==
    /\ reqs[s] = NoReq
    /\ Found(tasks, id, u)
    /\ reqs' = [reqs EXCEPT ![s] =
                  Loaded("task_complete", u, {GetObject(tasks, id, u)}, Absent)]
    /\ UNCHANGED <<storeVars, envVars, resp>>

\* task_complete: the flip of the loaded row, task.save() and the response
SaveToggle(s) ==
    /\ reqs[s].pc = "loaded"
    /\ reqs[s].op = "task_complete"
    /\ resp = NoResp
    /\ \E t \in reqs[s].rows : tasks' = Save(tasks, Toggled(t, today))
    /\ resp' = MutResponse(HTTP_200_OK)
    /\ reqs' = [reqs EXCEPT ![s] = NoReq]
    /\ UNCHANGED <<nextId, envVars>>

\* update_task: task = get_object_or_404(...)
LoadUpdate(s, u, id, raw) ==
    /\ reqs[s] = NoReq
    /\ Found(tasks, id, u)
    /\ reqs' = [reqs EXCEPT ![s] =
                  Loaded("update_task", u, {GetObject(tasks, id, u)}, raw)]
    /\ UNCHANGED <<storeVars, envVars, resp>>

\* update_task: the fields are set on the loaded row; task.save()
SaveUpdate(s) ==
    /\ reqs[s].pc = "loaded"
    /\ reqs[s].op = "update_task"
    /\ resp = NoResp
    /\ \E t \in reqs[s].rows :
          \E row \in {UpdatedTask(t, Absent, Absent, reqs[s].raw)} :
             IF StoreAccepts(dueDateNullable, row.due_date)
             THEN tasks' = Save(tasks, row) /\ resp' = MutResponse(HTTP_200_OK)
             ELSE tasks' = tasks /\ resp' = MutResponse(HTTP_500_INTERNAL_SERVER_ERROR)
    /\ reqs' = [reqs EXCEPT ![s] = NoReq]
    /\ UNCHANGED <<nextId, envVars>>

\* multiple_task_complete: tasks_qs is evaluated by the for loop
LoadBulkToggle(s, u, ids) ==
    /\ reqs[s] = NoReq
    /\ reqs' = [reqs EXCEPT ![s] =
                  Loaded("multiple_task_complete", u, FilterIdsOwner(tasks, ids, u), Absent)]
    /\ UNCHANGED <<storeVars, envVars, resp>>

\* multiple_task_complete: the flips of the loaded rows and bulk_update
SaveBulkToggle(s) ==
    /\ reqs[s].pc = "loaded"
    /\ reqs[s].op = "multiple_task_complete"
    /\ resp = NoResp
    /\ tasks' = BulkUpdateStatus(tasks, BulkToggled(reqs[s].rows, today))
    /\ resp' = MutResponse(HTTP_200_OK)
    /\ reqs' = [reqs EXCEPT ![s] = NoReq]
    /\ UNCHANGED <<nextId, envVars>>

\* update, toggle and bulk toggle requests interleave with each other and
\* with creates and deletes
NextRace ==
    \/ \E u \in Users, title \in Titles, details \in Details, raw \in RawDues :
          add_task(u, title, details, raw)
    \/ \E s \in Slots, u \in Users, id \in IdPool(tasks) : LoadToggle(s, u, id)
    \/ \E s \in Slots : SaveToggle(s)
    \/ \E s \in Slots, u \in Users, id \in IdPool(tasks), raw \in RawDues :
          LoadUpdate(s, u, id, raw)
    \/ \E s \in Slots : SaveUpdate(s)
    \/ \E s \in Slots, u \in Users, ids \in IdLists(tasks) : LoadBulkToggle(s, u, ids)
    \/ \E s \in Slots : SaveBulkToggle(s)
    \/ \E u \in Users, id \in IdPool(tasks) : delete_task(u, id)
    \/ \E u \in Users, p \in IdPayloads(tasks) : multiple_delete_task(u, p[1], p[2])
    \/ Deliver

SpecRace == Init /\ [][NextRace]_vars

(***************************************************************************)
(* Properties                                                              *)
(***************************************************************************)
\* the server is ready for the next request
Ready == resp = NoResp

\* the list views
Views == {"today_tasks", "next_week_tasks", "all_tasks"}

\* due_date strings that are sent and do not parse
Unparseable == {raw \in RawDues : raw # Absent /\ ParseDateInput(raw) = NULL}

\* the row with primary key id
TaskById(T, id) == CHOOSE t \in T : t.id = id

RECURSIVE MaterializeTimes(_, _, _, _)
\* Materialize(u, d) called n times in a row on the store st
MaterializeTimes(st, u, d, n) ==
    IF n = 0 THEN st ELSE apply_routines(MaterializeTimes(st, u, d, n - 1), u, d)

\* C1: for every owner and date, n calls of Materialize in a row (1 <= n <=
\* MaxCalls) leave the same Task records, and the same next id, as one call:
\* the second and later calls create no task.
C1_Idempotence ==
    Ready =>
    \A u \in Users, d \in 0 .. MaxDay :
        \A once \in {MaterializeTimes(Store, u, d, 1)} :
            \A n \in 1 .. MaxCalls : MaterializeTimes(Store, u, d, n) = once

\* one routine of A is materialized for today and the other is not, so the
\* first of the calls creates a task
C1_Witness ==
    /\ Cardinality({t \in tasks : t.created_by = "A" /\ t.routine # NULL
                                  /\ t.mat_for = today}) = 1
    /\ MaterializeTimes(Store, "A", today, 1).tasks # tasks

OthersUnchanged(T, T2, a) ==
    \A b \in Users \ {a} : OwnedBy(T2, b) = OwnedBy(T, b)

\* C3: whatever list, update, bulk date-update, delete, bulk delete, toggle
\* or bulk toggle request user a sends, with any ids, the rows of every other
\* user are unchanged and a list response holds rows of a only.
C3_OwnershipIsolation ==
    Ready =>
    \A a \in Users :
        /\ \A view \in Views :
              \A T2 \in {ListViewStore(view, Store, a, today).tasks} :
                 /\ OthersUnchanged(tasks, T2, a)
                 /\ \A mine \in {{t.id : t \in OwnedBy(T2, a)}} :
                       \A raw \in RawPages :
                          \A r \in ListResponses(a, raw, ViewQS(view, T2, a, today)) :
                             \A i \in 1 .. Len(r.user_tasks) : r.user_tasks[i] \in mine
        /\ \A id \in IdPool(tasks), raw \in RawDues :
              \A e \in Edits(tasks, id) :
                 OthersUnchanged(tasks,
                    UpdateTaskStore(tasks, dueDateNullable, a, id, e[1], e[2], raw), a)
        /\ \A id \in IdPool(tasks) :
              /\ OthersUnchanged(tasks, DeleteTaskStore(tasks, a, id), a)
              /\ OthersUnchanged(tasks, ToggleStore(tasks, a, id, today), a)
        /\ \A p \in IdPayloads(tasks) :
              /\ \A raw \in RawDues :
                    OthersUnchanged(tasks,
                       UpdateDatesStore(tasks, dueDateNullable, a, p[1], p[2], raw), a)
              /\ OthersUnchanged(tasks, BulkDeleteStore(tasks, a, p[1], p[2]), a)
              /\ OthersUnchanged(tasks, BulkToggleStore(tasks, a, p[1], p[2], today), a)

\* A and B both own rows, so the ids A can send include ids of rows of B
C3_Witness ==
    /\ Ready
    /\ OwnedBy(tasks, "A") # {}
    /\ OwnedBy(tasks, "B") # {}

\* C4: a bulk date-update that sends an unparseable due date is rejected and
\* updates none of the rows it names.
C4_BulkDateAtomicity ==
    Ready =>
    \A u \in Users, p \in IdPayloads(tasks), raw \in Unparseable :
        /\ UpdateDatesCode(tasks, dueDateNullable, u, p[1], p[2], raw) # HTTP_200_OK
        /\ UpdateDatesStore(tasks, dueDateNullable, u, p[1], p[2], raw) = tasks

\* the fields of a row that a toggle leaves alone
Untoggled(t) ==
    <<t.id, t.created_by, t.task_title, t.task_details, t.due_date, t.routine, t.mat_for>>

\* C5: toggling an owned completed task gives completed = false and
\* completed_on = null, toggling an owned incomplete task gives completed =
\* true and completed_on = today, and nothing else in the table changes.
C5_ToggleCorrectness ==
    Ready =>
    \A u \in Users, id \in IdPool(tasks) :
        Found(tasks, id, u) =>
        LET old == TaskById(tasks, id)
            after == ToggleStore(tasks, u, id, today)
        IN /\ \E new \in after :
                /\ new.id = id
                /\ after \ {new} = tasks \ {old}
                /\ Untoggled(new) = Untoggled(old)
                /\ old.status => (new.status = FALSE /\ new.done_date = NULL)
                /\ ~old.status => (new.status = TRUE /\ new.done_date = today)

\* a task completed on an earlier day and an incomplete one: both cases of
\* the toggle are there
C5_Witness ==
    /\ Ready
    /\ \E t \in tasks : t.status /\ t.done_date # NULL /\ t.done_date < today
    /\ \E t \in tasks : ~t.status

\* the rows of a view as the specification defines it
ViewMembers(view, T, u, d) ==
    {t \in T :
        /\ t.created_by = u
        /\ CASE view = "today_tasks" ->
                  t.due_date # NULL /\
                  (t.due_date = d \/ (t.due_date < d /\ ~t.status))
             [] view = "next_week_tasks" ->
                  t.due_date # NULL /\ d <= t.due_date /\ t.due_date <= d + WeekDays
             [] OTHER -> TRUE}

\* C6: every list response, whatever page is asked for, reports pending =
\* total - completed, with total the number of rows of the unpaginated view
\* and completed the number of completed rows among them.
C6_CountInvariant ==
    Ready =>
    \A u \in Users, view \in Views :
        \A T2 \in {ListViewStore(view, Store, u, today).tasks} :
           \A V \in {ViewMembers(view, T2, u, today)} :
              \A total \in {Cardinality(V)}, completed \in {Cardinality({t \in V : t.status})} :
                 \A raw \in RawPages :
                    \A r \in ListResponses(u, raw, ViewQS(view, T2, u, today)) :
                       /\ r.pending_tasks = r.total_number_tasks - r.completed_tasks_count
                       /\ r.total_number_tasks = total
                       /\ r.completed_tasks_count = completed

\* a response with the second page of a view that has a completed row
C6_Witness ==
    /\ resp.kind = "list"
    /\ resp.page = 2
    /\ resp.total_number_tasks > Len(resp.user_tasks)
    /\ resp.completed_tasks_count > 0
    /\ resp.pending_tasks > 0

\* items is a first page of the rows V in the order of the views
IsFirstPage(items, V) ==
    /\ Len(items) = IF Cardinality(V) < PerPage THEN Cardinality(V) ELSE PerPage
    /\ \A i \in 1 .. Len(items) : \E t \in V : t.id = items[i]
    /\ \A i \in 1 .. Len(items), j \in 1 .. Len(items) :
          i < j => /\ items[i] # items[j]
                   /\ ~KeyLess(TaskById(V, items[j]), TaskById(V, items[i]))
    /\ \A i \in 1 .. Len(items) :
          \A t \in V : KeyLess(t, TaskById(V, items[i])) =>
                          \E j \in 1 .. Len(items) : items[j] = t.id

\* the page asked for is not a number, or lies beyond the last page of V
BadPage(raw, V) ==
    \/ raw = "abc"
    \/ raw = "2" /\ (IntOfPage(raw) - 1) * PerPage >= Cardinality(V)

\* C7: in every view, a page request that is not a number or lies beyond the
\* last page gets a success response with page 1 of the view.
C7_PaginationFallback ==
    Ready =>
    \A u \in Users, view \in Views :
        \A T2 \in {ListViewStore(view, Store, u, today).tasks} :
           \A V \in {ViewMembers(view, T2, u, today)} :
              \A raw \in RawPages :
                 BadPage(raw, V) =>
                 \A r \in ListResponses(u, raw, ViewQS(view, T2, u, today)) :
                    /\ r.code = HTTP_200_OK
                    /\ r.success
                    /\ r.page = 1
                    /\ IsFirstPage(r.user_tasks, V)

\* a user has more rows than a page holds: page 1 is not the whole view
C7_Witness ==
    /\ Ready
    /\ \E u \in Users : Cardinality(OwnedBy(tasks, u)) > PerPage

\* C8: update, delete and toggle on the id of a row of another user answer
\* "not found" (404), and change nothing.
C8_NotOwnedIsNotFound ==
    Ready =>
    \A u \in Users, t \in tasks :
        t.created_by # u =>
        /\ RowCode(Found(tasks, t.id, u)) = HTTP_404_NOT_FOUND
        /\ \A raw \in RawDues : \A e \in Edits(tasks, t.id) :
              /\ RowCode(UpdateTaskOk(tasks, dueDateNullable, u, t.id, e[1], e[2], raw))
                    = HTTP_404_NOT_FOUND
              /\ UpdateTaskStore(tasks, dueDateNullable, u, t.id, e[1], e[2], raw) = tasks
        /\ DeleteTaskStore(tasks, u, t.id) = tasks
        /\ ToggleStore(tasks, u, t.id, today) = tasks

\* C9: an update of an owned row that sends an unparseable due date gets an
\* error response and leaves the row as it was.
C9_UnparseableDueRejected ==
    Ready =>
    \A t \in tasks, raw \in Unparseable :
        \A e \in Edits(tasks, t.id) :
            /\ RowCode(UpdateTaskOk(tasks, dueDateNullable, t.created_by, t.id,
                                    e[1], e[2], raw)) # HTTP_200_OK
            /\ UpdateTaskStore(tasks, dueDateNullable, t.created_by, t.id,
                               e[1], e[2], raw) = tasks

\* C10: in every reachable state every row has done_date set if and only if
\* its status is true.
C10_DoneDateIffStatus ==
    \A t \in tasks : (t.done_date # NULL) <=> t.status

\* a materialized row that was completed, and a row that is incomplete
C10_Witness ==
    /\ \E t \in tasks : t.routine # NULL /\ t.status /\ t.done_date = today
    /\ \E t \in tasks : ~t.status /\ t.done_date = NULL

\* the ids of the rows of T
Ids(T) == {t.id : t \in T}

\* the rows for (owner u, routine r, date d)
TasksFor(T, r, u, d) ==
    {t \in T : t.created_by = u /\ t.routine = r.id /\ t.mat_for = d}

\* C11: Materialize(u, d) creates a task for routine r if and only if r is
\* owned by u, fires on d and has no task for (u, r, d); every created task
\* has due_date d, is incomplete and carries the title and details of its
\* routine; afterwards every firing routine of u has exactly one task for d;
\* no existing row is changed and nothing is created for other routines.
C11_MaterializeIff ==
    Ready =>
    \A u \in Users, d \in 0 .. MaxDay :
        \A after \in {apply_routines(Store, u, d).tasks} :
           \A created \in {{t \in after : t.id \notin Ids(tasks)}} :
              /\ tasks \subseteq after
              /\ \A t \in created : \E r \in routines : t.routine = r.id
              /\ \A r \in routines :
                    /\ (\E t \in created : t.routine = r.id)
                          <=> (/\ r.owner = u
                               /\ fires_on(r.rule, d)
                               /\ TasksFor(tasks, r, u, d) = {})
                    /\ \A t \in created :
                          t.routine = r.id =>
                             /\ t.created_by = u
                             /\ t.mat_for = d
                             /\ t.due_date = d
                             /\ t.status = FALSE
                             /\ t.done_date = NULL
                             /\ t.task_title = r.title
                             /\ t.task_details = r.details
                    /\ (r.owner = u /\ fires_on(r.rule, d)) =>
                          Cardinality(TasksFor(after, r, u, d)) = 1

\* a list view has just materialized both routines of A for today
C11_Witness ==
    /\ resp.kind = "list"
    /\ \A r \in routines :
          r.owner = "A" /\ fires_on(r.rule, today)
                        /\ Cardinality(TasksFor(tasks, r, "A", today)) = 1

\* the items of a page, as a set
Items(seq) == {seq[i] : i \in 1 .. Len(seq)}

\* C12: the today view of u, all its pages together, holds exactly the rows
\* of u that are due today, or are due on an earlier date and incomplete; so
\* every incomplete row of u with a due date on or before today is in it.
C12_TodayViewMembership ==
    Ready =>
    \A u \in Users :
        \A T2 \in {ListViewStore("today_tasks", Store, u, today).tasks} :
           \A V \in {ViewMembers("today_tasks", T2, u, today)} :
              /\ \A ordered \in OrderBy(ViewQS("today_tasks", T2, u, today)) :
                    UNION {Items(PageSlice(ordered, n)) :
                              n \in 1 .. NumPages(Len(ordered))} = Ids(V)
              /\ \A raw \in RawPages :
                    \A r \in ListResponses(u, raw, ViewQS("today_tasks", T2, u, today)) :
                       /\ Items(r.user_tasks) \subseteq Ids(V)
                       /\ r.total_number_tasks = Cardinality(V)
              /\ \A t \in tasks :
                    (/\ t.created_by = u
                     /\ ~t.status
                     /\ t.due_date # NULL
                     /\ t.due_date <= today) => t.id \in Ids(V)

\* a user has an overdue incomplete row, which is in the view, and an overdue
\* completed row, which is not
C12_Witness ==
    /\ Ready
    /\ \E t1 \in tasks, t2 \in tasks :
          /\ t1.created_by = t2.created_by
          /\ t1.due_date # NULL /\ t1.due_date < today /\ ~t1.status
          /\ t2.due_date # NULL /\ t2.due_date < today /\ t2.status

\* C13: a bulk toggle of user u with the id list ids flips every row of u
\* named in the list by its own prior status (done_date = today when it
\* becomes complete, NULL when it becomes incomplete) and leaves its other
\* fields alone; every other row, and the set of ids, is unchanged.
C13_BulkToggleIndependent ==
    Ready =>
    \A u \in Users, ids \in IdLists(tasks) :
        \A after \in {BulkToggleStore(tasks, u, TRUE, ids, today)} :
           /\ Ids(after) = Ids(tasks)
           /\ Cardinality(after) = Cardinality(tasks)
           /\ \A old \in tasks :
                 IF old.id \in ids /\ old.created_by = u
                 THEN \E new \in after :
                         /\ new.id = old.id
                         /\ Untoggled(new) = Untoggled(old)
                         /\ new.status = ~old.status
                         /\ new.done_date = IF old.status THEN NULL ELSE today
                 ELSE old \in after

\* a user has a completed row and an incomplete row: a list with both ids
\* targets rows in different states
C13_Witness ==
    /\ Ready
    /\ \E t1 \in tasks, t2 \in tasks :
          /\ t1.created_by = t2.created_by
          /\ t1.status /\ t1.done_date # today
          /\ ~t2.status

\* C14: a bulk delete whose task_ids is the empty list, or is not a list,
\* gets a client error (4xx, success false) and deletes no row.
C14_BulkDeleteBadIds ==
    Ready =>
    \A u \in Users, p \in IdPayloads(tasks) :
        (~p[1] \/ p[2] = {}) =>
           /\ BulkDeleteCode(p[1], p[2]) \in 400 .. 499
           /\ ~MutResponse(BulkDeleteCode(p[1], p[2])).success
           /\ BulkDeleteStore(tasks, u, p[1], p[2]) = tasks

\* the state a rejected bulk delete leaves: its 400 response is on its way
\* and the rows are still there
C14_Witness ==
    /\ resp.kind = "mut"
    /\ resp.code = HTTP_400_BAD_REQUEST
    /\ tasks # {}

\* C15: add_task of user u adds exactly one row: it is owned by u, is
\* incomplete, and its due date is the date sent when that parses and today
\* when due_date is absent or does not parse; every row that existed is
\* still there unchanged.
C15_CreateDefaults ==
    (Ready /\ nextId <= MaxId) =>
    \A u \in Users, title \in Titles, details \in Details, raw \in RawDues :
        \A after \in {AddTaskStore(tasks, nextId, u, title, details, raw, today)} :
           /\ tasks \subseteq after
           /\ Cardinality(after) = Cardinality(tasks) + 1
           /\ \A t \in after \ tasks :
                 /\ t.id \notin Ids(tasks)
                 /\ t.created_by = u
                 /\ t.status = FALSE
                 /\ t.done_date = NULL
                 /\ t.due_date = IF raw = Absent \/ raw \in Unparseable
                                 THEN today
                                 ELSE ParseDateInput(raw)

\* a create has answered 201 on a day after day 0, and the table holds a
\* row that took the day of its creation and a row that took the date sent
C15_Witness ==
    /\ resp.kind = "mut"
    /\ resp.code = HTTP_201_CREATED
    /\ today > 0
    /\ \E t \in tasks : t.routine = NULL /\ t.due_date = today
    /\ \E t \in tasks : t.routine = NULL /\ t.due_date # NULL /\ t.due_date < today

\* C16: a step that edits or deletes a routine, and every Materialize call
\* of a list view, also one that comes after such an edit or delete, leaves
\* every materialized task in the table with all its fields as they were.
C16_RoutineChangeFrame ==
    [][(routines' # routines \/ (resp = NoResp /\ resp'.kind = "list"))
          => \A t \in tasks : t.routine # NULL => t \in tasks']_vars

\* a list view has run Materialize for today after the routine of a task
\* materialized for today was edited or deleted; the task has the old template
C16_Witness ==
    /\ resp.kind = "list"
    /\ \E t \in tasks :
          /\ t.routine # NULL
          /\ t.mat_for = today
          /\ \E r \in Routines : r.id = t.routine /\ r.title = t.task_title
          /\ \A r \in routines : r.id = t.routine => r.title # t.task_title

\* every routine of u that fires on d has exactly one task for d in T
AllMaterialized(T, u, d) ==
    \A r \in routines :
        (r.owner = u /\ fires_on(r.rule, d)) => Cardinality(TasksFor(T, r, u, d)) = 1

\* C17: when the creation of the tasks of some routines fails during
\* Materialize(u, d), the call does not raise, every other firing routine of
\* u has exactly one task for d after it, and the next Materialize(u, d) in
\* which no creation fails leaves exactly one task for every firing routine.
C17_FailureIsolation ==
    Ready =>
    \A u \in Users, d \in 0 .. MaxDay, F \in FailureSets :
        \A out \in {apply_routines_failing(Store, u, d, F)} :
           /\ ~out.raised
           /\ tasks \subseteq out.tasks
           /\ \A r \in routines :
                 (r.owner = u /\ fires_on(r.rule, d) /\ r.id \notin F)
                    => Cardinality(TasksFor(out.tasks, r, u, d)) = 1
           /\ AllMaterialized(apply_routines(out, u, d).tasks, u, d)

\* a list view has answered after a call in which the creation for one
\* routine of A failed: the other routine has its task, the table never held
\* another row
C17_Witness ==
    /\ resp.kind = "list"
    /\ nextId = 2
    /\ \E r \in routines, q \in routines :
          /\ r.owner = "A" /\ q.owner = "A"
          /\ fires_on(r.rule, today) /\ fires_on(q.rule, today)
          /\ Cardinality(TasksFor(tasks, r, "A", today)) = 1
          /\ TasksFor(tasks, q, "A", today) = {}

\* C18: every toggle or bulk toggle request that completes flips each of its
\* targets from the status stored just before its write, also when another
\* request on the same task ran between its load and its write: no flip is
\* lost, and two such requests leave the task in its original state.
C18_NoLostFlip ==
    [][\A s \in Slots :
          (/\ reqs[s].pc = "loaded"
           /\ reqs[s].op \in {"task_complete", "multiple_task_complete"}
           /\ reqs'[s] = NoReq)
          => \A row \in reqs[s].rows : \A t \in tasks :
                t.id = row.id =>
                   \E t2 \in tasks' : t2.id = t.id /\ t2.status = ~t.status]_vars

\* C20: an id that was given to a row and is no longer in the table stays out
\* of the table in every step.
C20_DeletedStaysDeleted ==
    [][\A id \in 1 .. MaxId :
          (id < nextId /\ id \notin Ids(tasks)) => id \notin Ids(tasks')]_vars

\* C19: every step that puts a new routine-sourced task in the table is a
\* today_tasks or a next_week_tasks request, and the task is materialized for
\* today: all_tasks and the mutation views create none, and next_week_tasks
\* materializes for no other date of its week.
C19_OnlyListViewsMaterialize ==
    [][\A t \in tasks' :
          (t.routine # NULL /\ t.id \notin Ids(tasks)) =>
             /\ t.mat_for = today
             /\ \E u \in Users, raw \in RawPages :
                   today_tasks(u, raw) \/ next_week_tasks(u, raw)]_vars

\* a mutation has answered on a day on which a routine of A fires and has
\* no task: the mutation did not materialize it
C19_Witness ==
    /\ resp.kind = "mut"
    /\ \E r \in routines :
          /\ r.owner = "A"
          /\ fires_on(r.rule, today)
          /\ TasksFor(tasks, r, "A", today) = {}
    /\ \E t \in tasks : t.created_by = "A"

====
